---- MODULE Spec2Model ----
(***************************************************************************)
(* Connection lifecycle of WebSocketClient (lib/webSocketClient.js): the   *)
(* socket handle, the reconnect interval, the attempt counter and the      *)
(* wasClosedOnPurpose flag, driven by caller calls, socket events and      *)
(* interval ticks.  The host WebSocket and setInterval/clearInterval are   *)
(* modelled by what the code asks of them (readyState, close(), the four   *)
(* events, a set of live interval ids).                                    *)
(***************************************************************************)
EXTENDS Integers, Sequences, FiniteSets, TLC

\* ------------------------------------------------------------------ bounds
\* Sockets ever created in one behaviour (each connect() creates one).
MaxSockets == 3
\* Largest configured maxReconnectAttempts explored (0 = unlimited).
MaxAttemptsCfg == 2
\* Interval ids the host can hand out at the same time.
MaxTimers == 2
\* Payloads handed to sockets in one behaviour.
MaxSends == 1
\* Value at which the attempt counter stops growing in SpecLive (a JavaScript
\* number stops growing under ++ at 2^53).
MaxCount == 2

\* --------------------------------------------------------- host constants
\* WebSocket.readyState values
CONNECTING == 0
OPEN == 1
CLOSING == 2
CLOSED == 3
\* null, for the socket handle and for the interval handle
Null == 0

VARIABLES
    autoReconnect,          \* this.autoReconnect (fixed at construction)
    maxReconnectAttempts,   \* this.maxReconnectAttempts (fixed at construction)
    websocket,              \* this.websocket: index into sockets, or Null
    reconnectInterval,      \* this.reconnectInterval: interval id, or Null
    reconnectAttempts,      \* this.reconnectAttempts
    wasClosedOnPurpose,     \* this.wasClosedOnPurpose
    sockets,                \* every WebSocket created so far, in creation order
    liveTimers,             \* interval ids set by setInterval and not yet cleared
    forwarded,              \* payloads the manager has handed to a socket's send()
    inTask,                 \* socket whose close event is still to fire in the running task, or Null
    callerClosed,           \* history: sockets the caller's close() requested close on
    cycleConnects,          \* history: connect() calls made by ticks since the interval was armed
    exhausted,              \* history: the interval disarmed itself and the caller has not called connect() since
    closedByCaller,         \* history: the caller's last call of connect()/close() was close()
    ev                      \* history: the step just taken

vars == <<autoReconnect, maxReconnectAttempts, websocket, reconnectInterval,
          reconnectAttempts, wasClosedOnPurpose, sockets, liveTimers, forwarded, inTask,
          callerClosed, cycleConnects, exhausted, closedByCaller, ev>>

config == <<autoReconnect, maxReconnectAttempts>>

\* ------------------------------------------------------------ host: socket
\* new WebSocket(url): a socket in the CONNECTING state.
NewWebSocket == [readyState |-> CONNECTING, aborted |-> FALSE]

\* WebSocket.prototype.close(): nothing when already closing or closed; a
\* socket still connecting is failed (it will fire error, then an unclean
\* close); an open one starts the closing handshake.
SocketClose(sk) ==
    IF sk.readyState \in {CLOSING, CLOSED} THEN sk
    ELSE [readyState |-> CLOSING, aborted |-> (sk.readyState = CONNECTING)]

\* WebSocket.prototype.send(): throws on a socket still connecting; returns
\* otherwise (a closing or closed socket discards the data).
SocketSend(sk) == IF sk.readyState = CONNECTING THEN "InvalidStateError" ELSE "none"

\* ------------------------------------------------------------ host: timers
\* setInterval hands out an id that no live interval has.
FreshTimer(live) == CHOOSE t \in 1..MaxTimers : t \notin live /\ \A u \in 1..MaxTimers : u \notin live => t <= u

\* ---------------------------------------------------------------- manager
\* The manager's fields together with the host objects its methods touch.
Cur == [websocket |-> websocket,
        reconnectInterval |-> reconnectInterval,
        reconnectAttempts |-> reconnectAttempts,
        wasClosedOnPurpose |-> wasClosedOnPurpose,
        sockets |-> sockets,
        liveTimers |-> liveTimers]

\* getReadyState()
getReadyState(M) ==
    IF M.websocket # Null THEN M.sockets[M.websocket].readyState ELSE CLOSED

\* getIsConnected()
getIsConnected(M) == getReadyState(M) = OPEN

\* close() that sets the flag also when it holds no socket
close_AlwaysFlags(M) ==
    IF M.websocket # Null
    THEN [M EXCEPT !.wasClosedOnPurpose = TRUE,
                   !.sockets[M.websocket] = SocketClose(M.sockets[M.websocket]),
                   !.websocket = Null]
    ELSE [M EXCEPT !.wasClosedOnPurpose = TRUE]

\* close() that forgets to drop the handle
close_KeepsHandle(M) ==
    IF M.websocket # Null
    THEN [M EXCEPT !.wasClosedOnPurpose = TRUE,
                   !.sockets[M.websocket] = SocketClose(M.sockets[M.websocket])]
    ELSE M

\* close()
close(M) ==
    IF M.websocket # Null
    THEN [M EXCEPT !.wasClosedOnPurpose = TRUE,
                   !.sockets[M.websocket] = SocketClose(M.sockets[M.websocket]),
                   !.websocket = Null]
    ELSE [M EXCEPT !.websocket = Null]

\* connect() that also stops a running reconnect cycle
connect_StopsTimer(M) ==
    LET C == close(M)
    IN [C EXCEPT !.sockets = Append(C.sockets, NewWebSocket),
                 !.websocket = Len(C.sockets) + 1,
                 !.liveTimers = C.liveTimers \ {C.reconnectInterval},
                 !.reconnectInterval = Null]

\* connect() that does not close the socket it holds
connect_NoClose(M) ==
    [M EXCEPT !.sockets = Append(M.sockets, NewWebSocket),
              !.websocket = Len(M.sockets) + 1]

\* connect()
connect(M) ==
    LET C == close(M)
    IN [C EXCEPT !.sockets = Append(C.sockets, NewWebSocket),
                 !.websocket = Len(C.sockets) + 1]

\* send(msg) that returns quietly when it holds no socket
send_DropsSilently(M) ==
    IF M.websocket = Null
    THEN [err |-> "none", calls |-> 0]
    ELSE [err |-> SocketSend(M.sockets[M.websocket]), calls |-> 1]

\* send(msg): what it throws, and how many payloads it hands to a socket.
\* this.websocket.send on a null handle is a TypeError of the host.
send(M) ==
    IF M.websocket = Null
    THEN [err |-> "TypeError", calls |-> 0]
    ELSE [err |-> SocketSend(M.sockets[M.websocket]), calls |-> 1]

\* sendJson(json): JSON.stringify throws a TypeError on a value it cannot
\* serialize (a cycle, a BigInt); its text is then passed to send().
sendJson(M, serializable) ==
    IF serializable THEN send(M) ELSE [err |-> "TypeError", calls |-> 0]

\* startAutoReconnect() that forgets to reset the counter
startAutoReconnect_NoReset(M) ==
    LET t == FreshTimer(M.liveTimers)
    IN [M EXCEPT !.reconnectInterval = t,
                 !.liveTimers = M.liveTimers \cup {t}]

\* startAutoReconnect()
startAutoReconnect(M) ==
    LET t == FreshTimer(M.liveTimers)
    IN [M EXCEPT !.reconnectAttempts = 0,
                 !.reconnectInterval = t,
                 !.liveTimers = M.liveTimers \cup {t}]

\* stopAutoReconnect() that drops the handle without clearInterval
stopAutoReconnect_NoClear(M) ==
    [M EXCEPT !.reconnectInterval = Null]

\* stopAutoReconnect(): clearInterval(null) clears nothing.
stopAutoReconnect(M) ==
    [M EXCEPT !.liveTimers = M.liveTimers \ {M.reconnectInterval},
              !.reconnectInterval = Null]

\* reconnect() test with <= for <
MayReconnect_OffByOne(max, attempts) == max = 0 \/ attempts <= max

\* reconnect() test that takes 0 for a limit
MayReconnect_ZeroIsLimit(max, attempts) == attempts < max

\* The test of reconnect(): is another attempt allowed?
MayReconnect(max, attempts) == max = 0 \/ attempts < max

\* reconnect() that counts the tick that gives up as an attempt
reconnect_CountsExhausted(M) ==
    IF MayReconnect(maxReconnectAttempts, M.reconnectAttempts)
    THEN connect([M EXCEPT !.reconnectAttempts = M.reconnectAttempts + 1])
    ELSE stopAutoReconnect([M EXCEPT !.reconnectAttempts = M.reconnectAttempts + 1])

\* reconnect(), the interval's callback
reconnect(M) ==
    IF MayReconnect(maxReconnectAttempts, M.reconnectAttempts)
    THEN connect([M EXCEPT !.reconnectAttempts = M.reconnectAttempts + 1])
    ELSE stopAutoReconnect(M)

\* 'open' listener
OnOpen(M) == stopAutoReconnect(M)

\* 'error' listener test without the check for a running interval
ErrorArms_NoIdleCheck(auto, interval) == auto

\* 'error' listener test that does not look at autoReconnect
ErrorArms_IgnoresAuto(auto, interval) == interval = Null

\* The test of the 'error' listener
ErrorArms(auto, interval) == auto /\ interval = Null

\* 'error' listener
OnError(M) ==
    IF ErrorArms(autoReconnect, M.reconnectInterval)
    THEN startAutoReconnect(M)
    ELSE M

\* 'close' listener test without the check for a running interval
CloseArms_NoIdleCheck(onPurpose, wasClean, auto, interval) ==
    ~onPurpose /\ ~wasClean /\ auto

\* The test of the 'close' listener
CloseArms(onPurpose, wasClean, auto, interval) ==
    ~onPurpose /\ ~wasClean /\ auto /\ interval = Null

\* 'close' listener
OnClose(M, wasClean) ==
    LET A == IF CloseArms(M.wasClosedOnPurpose, wasClean, autoReconnect, M.reconnectInterval)
             THEN startAutoReconnect(M)
             ELSE M
    IN [A EXCEPT !.wasClosedOnPurpose = FALSE]

\* ---------------------------------------------------------------- actions
\* The manager's fields and host objects after a method or listener ran.
Set(M) ==
    /\ websocket' = M.websocket
    /\ reconnectInterval' = M.reconnectInterval
    /\ reconnectAttempts' = M.reconnectAttempts
    /\ wasClosedOnPurpose' = M.wasClosedOnPurpose
    /\ sockets' = M.sockets
    /\ liveTimers' = M.liveTimers

Step(op, s, clean) == [op |-> op, sock |-> s, clean |-> clean, err |-> "none"]

\* A listener that may call startAutoReconnect needs an interval id to get.
CanArm == Cardinality(liveTimers) < MaxTimers

\* cycleConnects after a listener ran: a newly armed interval starts a cycle.
AfterArm(M) == IF M.liveTimers \subseteq liveTimers THEN cycleConnects ELSE 0

\* constructor
Init ==
    /\ autoReconnect \in BOOLEAN
    /\ maxReconnectAttempts \in 0..MaxAttemptsCfg
    /\ websocket = Null
    /\ reconnectInterval = Null
    /\ reconnectAttempts = 0
    /\ wasClosedOnPurpose = FALSE
    /\ sockets = <<>>
    /\ liveTimers = {}
    /\ forwarded = 0
    /\ inTask = Null
    /\ callerClosed = {}
    /\ cycleConnects = 0
    /\ exhausted = FALSE
    /\ closedByCaller = FALSE
    /\ ev = Step("new", Null, FALSE)

\* The caller calls connect() (between tasks, or from a listener of the
\* event the running task has fired).
CallConnect ==
    /\ Len(sockets) < MaxSockets
    /\ Set(connect(Cur))
    /\ exhausted' = FALSE
    /\ closedByCaller' = FALSE
    /\ ev' = Step("connect", Null, FALSE)
    /\ UNCHANGED <<config, forwarded, inTask, callerClosed, cycleConnects>>

\* The caller calls close() or disconnect().
CallClose ==
    /\ Set(close(Cur))
    /\ callerClosed' = IF websocket # Null THEN callerClosed \cup {websocket} ELSE callerClosed
    /\ closedByCaller' = TRUE
    /\ ev' = Step("close", websocket, FALSE)
    /\ UNCHANGED <<config, forwarded, inTask, cycleConnects, exhausted>>

\* The caller calls send(msg).
CallSend ==
    /\ forwarded + send(Cur).calls <= MaxSends
    /\ forwarded' = forwarded + send(Cur).calls
    /\ ev' = [Step("send", websocket, FALSE) EXCEPT !.err = send(Cur).err]
    /\ UNCHANGED <<config, websocket, reconnectInterval, reconnectAttempts,
                   wasClosedOnPurpose, sockets, liveTimers, inTask,
                   callerClosed, cycleConnects, exhausted, closedByCaller>>

\* The caller calls sendJson(json).
CallSendJson(serializable) ==
    /\ forwarded + sendJson(Cur, serializable).calls <= MaxSends
    /\ forwarded' = forwarded + sendJson(Cur, serializable).calls
    /\ ev' = [Step("sendJson", websocket, FALSE) EXCEPT !.err = sendJson(Cur, serializable).err]
    /\ UNCHANGED <<config, websocket, reconnectInterval, reconnectAttempts,
                   wasClosedOnPurpose, sockets, liveTimers, inTask,
                   callerClosed, cycleConnects, exhausted, closedByCaller>>

\* Socket s is established: readyState becomes OPEN and 'open' fires.
DeliverOpen(s) ==
    /\ inTask = Null
    /\ sockets[s].readyState = CONNECTING
    /\ Set(OnOpen([Cur EXCEPT !.sockets[s].readyState = OPEN]))
    /\ ev' = Step("open", s, FALSE)
    /\ UNCHANGED <<config, forwarded, inTask, callerClosed, cycleConnects, exhausted, closedByCaller>>

\* Socket s failed: readyState becomes CLOSED and 'error' fires; its
\* 'close' (unclean) fires next in the same task.
DeliverError(s) ==
    /\ inTask = Null
    /\ sockets[s].readyState # CLOSED
    /\ CanArm
    /\ LET M == OnError([Cur EXCEPT !.sockets[s].readyState = CLOSED])
       IN /\ Set(M)
          /\ cycleConnects' = AfterArm(M)
    /\ inTask' = s
    /\ ev' = Step("error", s, FALSE)
    /\ UNCHANGED <<config, forwarded, callerClosed, exhausted, closedByCaller>>

\* 'close' of socket s fires: after its 'error' in the running task, or on
\* its own when an established connection ended (cleanly or not).
DeliverClose(s, wasClean) ==
    /\ CanArm
    /\ \/ /\ inTask = s
          /\ ~wasClean
       \/ /\ inTask = Null
          /\ sockets[s].readyState \in {OPEN, CLOSING}
          /\ ~sockets[s].aborted
    /\ LET M == OnClose([Cur EXCEPT !.sockets[s].readyState = CLOSED], wasClean)
       IN /\ Set(M)
          /\ cycleConnects' = AfterArm(M)
    /\ inTask' = Null
    /\ ev' = Step("closed", s, wasClean)
    /\ UNCHANGED <<config, forwarded, callerClosed, exhausted, closedByCaller>>

\* Live interval t fires: reconnect() runs.
Tick(t) ==
    /\ inTask = Null
    /\ t \in liveTimers
    /\ MayReconnect(maxReconnectAttempts, reconnectAttempts) => Len(sockets) < MaxSockets
    /\ LET M == reconnect(Cur)
       IN /\ Set(M)
          /\ cycleConnects' = IF Len(M.sockets) > Len(sockets) THEN cycleConnects + 1 ELSE cycleConnects
          /\ exhausted' = (exhausted \/ M.liveTimers # liveTimers)
    /\ ev' = Step("tick", Null, FALSE)
    /\ UNCHANGED <<config, forwarded, inTask, callerClosed, closedByCaller>>

Next ==
    \/ CallConnect
    \/ CallClose
    \/ CallSend
    \/ \E serializable \in BOOLEAN : CallSendJson(serializable)
    \/ \E s \in 1..Len(sockets) : DeliverOpen(s)
    \/ \E s \in 1..Len(sockets) : DeliverError(s)
    \/ \E s \in 1..Len(sockets), wasClean \in BOOLEAN : DeliverClose(s, wasClean)
    \/ \E t \in 1..MaxTimers : Tick(t)

Spec == Init /\ [][Next]_vars

\* ------------------------------------------------- reconnection, unbounded
\* The manager left to itself after one connect(), with the peer up: a
\* connection attempt that is left alone does not fail, and the interval
\* may tick for ever.  Sockets that have fired their close event are
\* reclaimed, so a behaviour may create any number of sockets; a socket
\* keeps its place in `sockets` for as long as it has events to deliver.

Min(a, b) == IF a < b THEN a ELSE b

\* connect(), the new socket taking the place of a socket that is closed
\* and has nothing left to deliver, when there is one.
connectRecycled(M) ==
    LET C == close(M)
        dead == {s \in 1..Len(C.sockets) : C.sockets[s].readyState = CLOSED}
    IN IF dead = {}
       THEN connect(M)
       ELSE LET k == CHOOSE s \in dead : \A u \in dead : s <= u
            IN [C EXCEPT !.sockets[k] = NewWebSocket, !.websocket = k]

\* reconnect(), with the counter stopping at MaxCount
reconnectSaturating(M) ==
    IF MayReconnect(maxReconnectAttempts, M.reconnectAttempts)
    THEN connectRecycled([M EXCEPT !.reconnectAttempts = Min(M.reconnectAttempts + 1, MaxCount)])
    ELSE stopAutoReconnect(M)

\* constructor({autoReconnect: true, maxReconnectAttempts: 0})
LiveInit ==
    /\ Init
    /\ autoReconnect
    /\ maxReconnectAttempts = 0

\* The caller's one connect().
LiveConnect ==
    /\ Len(sockets) = 0
    /\ CallConnect

\* 'error' of socket s, which is not a connection attempt left alone: it
\* was established, or close() was called on it.
LiveDeliverError(s) ==
    /\ sockets[s].readyState \in {OPEN, CLOSING}
    /\ DeliverError(s)

\* 'error' or 'close' that socket s owes after close() was called on it.
LiveDeliverPending(s) ==
    /\ s \in 1..Len(sockets)
    /\ \/ /\ sockets[s].readyState = CLOSING
          /\ DeliverError(s) \/ \E wasClean \in BOOLEAN : DeliverClose(s, wasClean)
       \/ /\ inTask = s
          /\ DeliverClose(s, FALSE)

\* Live interval t fires: reconnect() runs.
LiveTick(t) ==
    /\ inTask = Null
    /\ t \in liveTimers
    /\ MayReconnect(maxReconnectAttempts, reconnectAttempts)
          => \/ Len(sockets) < MaxSockets
             \/ \E s \in 1..Len(sockets) : close(Cur).sockets[s].readyState = CLOSED
    /\ LET M == reconnectSaturating(Cur)
       IN /\ Set(M)
          /\ cycleConnects' = IF M.liveTimers = liveTimers THEN Min(cycleConnects + 1, MaxCount) ELSE cycleConnects
          /\ exhausted' = (exhausted \/ M.liveTimers # liveTimers)
    /\ ev' = Step("tick", Null, FALSE)
    /\ UNCHANGED <<config, forwarded, inTask, callerClosed, closedByCaller>>

LiveNext ==
    \/ LiveConnect
    \/ \E s \in 1..Len(sockets) : DeliverOpen(s)
    \/ \E s \in 1..Len(sockets) : LiveDeliverError(s)
    \/ \E s \in 1..Len(sockets), wasClean \in BOOLEAN : DeliverClose(s, wasClean)
    \/ \E t \in 1..MaxTimers : LiveTick(t)

\* The host keeps firing a live interval; a socket that stays connecting is
\* established and fires open; a socket on which close() was called fires
\* the events it owes, however other sockets' tasks interleave.
LiveFairness ==
    /\ \A t \in 1..MaxTimers : WF_vars(LiveTick(t))
    /\ \A s \in 1..MaxSockets :
          \/ []<>(~(s \in 1..Len(sockets) /\ sockets[s].readyState = CONNECTING))
          \/ []<><<s \in 1..Len(sockets) /\ DeliverOpen(s)>>_vars
    /\ \A s \in 1..MaxSockets : SF_vars(LiveDeliverPending(s))

SpecLive == LiveInit /\ [][LiveNext]_vars /\ LiveFairness

\* ----------------------------------------------------------------- claims
\* C1 (as stated): the close event of a socket that the caller closed with
\* close() never arms the reconnect interval, whatever its wasClean value
\* and whatever other sockets' events were delivered before it.
C1_IntentionalCloseNeverArms ==
    [][(ev'.op = "closed" /\ ev'.sock \in callerClosed)
          => liveTimers' \subseteq liveTimers]_vars

\* C2 (as stated): with the defaults, after connect() and then close() on
\* the still-connecting socket, no interval is armed for as long as that
\* socket is the only one ever created.
C2_CloseBeforeOpenNoTimer ==
    (/\ autoReconnect
     /\ maxReconnectAttempts = 0
     /\ Len(sockets) = 1
     /\ sockets[1].aborted
     /\ 1 \in callerClosed) => reconnectInterval = Null

\* C3 (as stated): an unclean close event of the current socket, which the
\* caller has not closed, delivered while autoReconnect is true and no
\* interval is armed, arms the interval with reconnectAttempts = 0.  It is
\* stated here for the socket that is the last one with events to deliver:
\* every other socket has already fired its close event.
C3_UncleanCloseArms ==
    [][(/\ ev'.op = "closed"
        /\ ~ev'.clean
        /\ ev'.sock = websocket
        /\ ev'.sock \notin callerClosed
        /\ inTask = Null
        /\ \A i \in 1..Len(sockets) : i # websocket => sockets[i].readyState = CLOSED
        /\ autoReconnect
        /\ reconnectInterval = Null)
          => (reconnectInterval' # Null /\ reconnectAttempts' = 0)]_vars

\* C4: an error event delivered while autoReconnect is true and no interval
\* is armed leaves exactly one live interval and reconnectAttempts = 0; one
\* delivered while an interval is armed changes neither the interval nor
\* the counter.
C4_ErrorArmsExactlyOne ==
    [][ev'.op = "error" =>
          /\ (autoReconnect /\ reconnectInterval = Null)
                => /\ Cardinality(liveTimers') = 1
                   /\ reconnectInterval' \in liveTimers'
                   /\ reconnectAttempts' = 0
          /\ reconnectInterval # Null
                => /\ liveTimers' = liveTimers
                   /\ reconnectInterval' = reconnectInterval
                   /\ reconnectAttempts' = reconnectAttempts]_vars

\* The only socket ever created has just fired error and an interval is armed.
C4_Witness ==
    /\ ev.op = "error"
    /\ Len(sockets) = 1
    /\ reconnectInterval # Null
    /\ reconnectAttempts = 0

\* C5: at most one interval is live, and the stored handle is non-null
\* exactly when one is live, and then it is that interval's id.
C5_SingleTimer ==
    /\ Cardinality(liveTimers) <= 1
    /\ liveTimers = (IF reconnectInterval = Null THEN {} ELSE {reconnectInterval})

\* An unclean close event was delivered while a cycle that has already
\* ticked is running.
C5_Witness ==
    /\ ev.op = "closed"
    /\ ~ev.clean
    /\ ~wasClosedOnPurpose
    /\ cycleConnects > 0
    /\ reconnectInterval # Null

\* C6: with maxReconnectAttempts = N > 0, a tick with reconnectAttempts < N
\* increments the counter and calls connect(), keeping the interval; a tick
\* with the counter at N disarms the interval and creates no socket; the
\* ticks of one cycle make at most N connect() calls.
C6_BoundedCycle ==
    [][(ev'.op = "tick" /\ maxReconnectAttempts > 0) =>
          IF reconnectAttempts < maxReconnectAttempts
          THEN /\ reconnectAttempts' = reconnectAttempts + 1
               /\ Len(sockets') = Len(sockets) + 1
               /\ reconnectInterval' = reconnectInterval
               /\ cycleConnects' <= maxReconnectAttempts
          ELSE /\ reconnectInterval' = Null
               /\ liveTimers' = {}
               /\ sockets' = sockets
               /\ cycleConnects' = maxReconnectAttempts]_vars

\* A cycle with N = 2 made its two connects and the next tick disarmed it.
C6_Witness ==
    /\ ev.op = "tick"
    /\ maxReconnectAttempts = 2
    /\ cycleConnects = 2
    /\ reconnectInterval = Null

\* C7: with maxReconnectAttempts = 0 an armed interval is disarmed by
\* nothing but an open event, and each of its ticks calls connect().
C7_UnlimitedNeverSelfDisarms ==
    [][(maxReconnectAttempts = 0 /\ reconnectInterval # Null) =>
          /\ ev'.op = "tick" => /\ Len(sockets') = Len(sockets) + 1
                                /\ websocket' = Len(sockets')
                                /\ reconnectAttempts' = reconnectAttempts + 1
          /\ ev'.op # "open" => /\ reconnectInterval' = reconnectInterval
                                /\ liveTimers' = liveTimers]_vars

\* An unlimited cycle has ticked twice and is still armed.
C7_Witness ==
    /\ maxReconnectAttempts = 0
    /\ ev.op = "tick"
    /\ cycleConnects = 2
    /\ reconnectInterval # Null

\* C8: after an open event is handled no interval is live and the handle
\* is null; a tick happens only while the handle is non-null.
C8_OpenDisarms ==
    [][/\ ev'.op = "open" => (reconnectInterval' = Null /\ liveTimers' = {})
       /\ ev'.op = "tick" => reconnectInterval # Null]_vars

\* The socket a tick of an unlimited cycle created has opened: the interval
\* was armed until this open.
C8_Witness ==
    /\ ev.op = "open"
    /\ ev.sock = 2
    /\ Len(sockets) = 2
    /\ maxReconnectAttempts = 0
    /\ cycleConnects = 1
    /\ reconnectInterval = Null

\* C9 (as stated): right after an open event is handled reconnectAttempts
\* is 0.
C9_OpenResetsAttempts ==
    [][ev'.op = "open" => reconnectAttempts' = 0]_vars

\* C9 (amended): an open event disarms the interval and leaves
\* reconnectAttempts as it was; the counter is set to 0 by the step that
\* arms an interval.
C9_OpenKeepsAttempts ==
    [][/\ ev'.op = "open" => /\ reconnectAttempts' = reconnectAttempts
                             /\ reconnectInterval' = Null
       /\ (reconnectInterval = Null /\ reconnectInterval' # Null)
             => reconnectAttempts' = 0]_vars

\* An open event was handled and the counter still shows the cycle's ticks.
C9_Witness ==
    /\ ev.op = "open"
    /\ reconnectAttempts > 0
    /\ reconnectInterval = Null

\* C10 (as stated): after the interval has disarmed itself, no interval is
\* armed again until the caller calls connect().
C10_ExhaustedIsTerminal ==
    exhausted => reconnectInterval = Null

\* C11 (as stated): after the caller's close(), the socket handle stays
\* empty (the manager creates no socket on its own) until the caller calls
\* connect().
C11_CloseTearsDown ==
    closedByCaller => websocket = Null

\* C12: close() called while the manager holds no socket changes nothing:
\* the handle stays empty, no interval is armed or cleared, the flag and
\* the counter keep their values and no socket is touched, in every
\* configuration; so calling it again changes nothing either.
C12_CloseNoSocketIsNoOp ==
    [][(ev'.op = "close" /\ websocket = Null)
          => UNCHANGED <<websocket, reconnectInterval, reconnectAttempts,
                         wasClosedOnPurpose, sockets, liveTimers>>]_vars

\* close() was called with no socket held, after an earlier socket's life,
\* and the flag is not set.
C12_Witness ==
    /\ ev.op = "close"
    /\ ev.sock = Null
    /\ Len(sockets) > 0
    /\ ~wasClosedOnPurpose

\* C13: right after close() the handle is empty, getReadyState() is CLOSED
\* and getIsConnected() is false, whatever state the socket it closed is in.
C13_CloseClearsHandle ==
    [][ev'.op = "close" => /\ websocket' = Null
                           /\ getReadyState(Cur)' = CLOSED
                           /\ ~getIsConnected(Cur)']_vars

\* close() has just returned and the socket it closed is still closing.
C13_Witness ==
    /\ ev.op = "close"
    /\ ev.sock # Null
    /\ sockets[ev.sock].readyState = CLOSING
    /\ ~sockets[ev.sock].aborted
    /\ websocket = Null

\* C14: send(msg) or sendJson(json) called while the manager holds no socket
\* throws to the caller (the host's TypeError for the null handle), hands
\* nothing to any socket and changes no field, socket or interval.
C14_SendWithoutSocketThrows ==
    [][(ev'.op \in {"send", "sendJson"} /\ websocket = Null)
          => /\ ev'.err = "TypeError"
             /\ forwarded' = forwarded
             /\ UNCHANGED <<websocket, reconnectInterval, reconnectAttempts,
                            wasClosedOnPurpose, sockets, liveTimers>>]_vars

\* send() has just thrown after the caller's close() dropped the socket,
\* although an earlier payload did go out.
C14_Witness ==
    /\ ev.op = "send"
    /\ ev.sock = Null
    /\ ev.err = "TypeError"
    /\ closedByCaller
    /\ forwarded = 1

\* C15 (as stated): whenever wasClosedOnPurpose is true, some socket still
\* has a close event to deliver that will consume the flag (a socket on
\* which close was requested and which is closing, or the socket whose close
\* event is the next one of the running task).
C15_FlagIsTransient ==
    wasClosedOnPurpose =>
        \E s \in 1..Len(sockets) : sockets[s].readyState = CLOSING \/ inTask = s

\* C16 (as stated): an open, error or close event of a socket that is not
\* the manager's current handle leaves the interval, the counter and the
\* flag as they were.
C16_StaleEventsIgnored ==
    [][(ev'.op \in {"open", "error", "closed"} /\ ev'.sock # websocket)
          => UNCHANGED <<reconnectInterval, liveTimers, reconnectAttempts,
                         wasClosedOnPurpose>>]_vars

\* C17: with maxReconnectAttempts = N > 0, 0 <= reconnectAttempts <= N in
\* every state; the counter changes only by being set to 0 by the step that
\* arms the interval, and by +1 on a tick that calls connect().
C17_AttemptsBounded ==
    /\ [](maxReconnectAttempts > 0
            => (0 <= reconnectAttempts /\ reconnectAttempts <= maxReconnectAttempts))
    /\ [][reconnectAttempts' # reconnectAttempts
            => \/ /\ reconnectAttempts' = 0
                  /\ reconnectInterval = Null
                  /\ reconnectInterval' # Null
               \/ /\ ev'.op = "tick"
                  /\ reconnectAttempts' = reconnectAttempts + 1
                  /\ Len(sockets') = Len(sockets) + 1]_vars

\* A tick has taken the counter to its limit of 2.
C17_Witness ==
    /\ ev.op = "tick"
    /\ maxReconnectAttempts = 2
    /\ reconnectAttempts = 2
    /\ reconnectInterval # Null

\* C18: connect() neither arms nor disarms the interval and does not touch
\* the counter: a caller's connect() leaves the handle, the live intervals
\* and reconnectAttempts as they were, and a tick that calls connect()
\* leaves the handle and the live intervals as they were, the counter
\* showing only the tick's own increment.
C18_ConnectKeepsTimer ==
    [][/\ ev'.op = "connect"
            => UNCHANGED <<reconnectInterval, liveTimers, reconnectAttempts>>
       /\ (ev'.op = "tick" /\ Len(sockets') > Len(sockets))
            => /\ UNCHANGED <<reconnectInterval, liveTimers>>
               /\ reconnectAttempts' = reconnectAttempts + 1]_vars

\* The caller has called connect() during a cycle that has already ticked.
C18_Witness ==
    /\ ev.op = "connect"
    /\ reconnectInterval # Null
    /\ reconnectAttempts > 0
    /\ websocket = Len(sockets)

\* C19: every socket that is connecting or open (so close was never
\* requested on it) is the manager's current handle; hence there is at
\* most one.
C19_SingleLiveSocket ==
    \A s \in 1..Len(sockets) :
        sockets[s].readyState \in {CONNECTING, OPEN} => s = websocket

\* The third socket is open while the two it replaced are still closing.
C19_Witness ==
    /\ Len(sockets) = 3
    /\ websocket = 3
    /\ sockets[3].readyState = OPEN
    /\ sockets[1].readyState = CLOSING
    /\ sockets[2].readyState = CLOSING

\* C20: with autoReconnect false no interval is ever armed, and every new
\* socket is created by a caller's connect().
C20_NoAutoReconnect ==
    /\ [](~autoReconnect => (reconnectInterval = Null /\ liveTimers = {}))
    /\ [][(~autoReconnect /\ Len(sockets') > Len(sockets))
            => ev'.op = "connect"]_vars

\* With autoReconnect false, a socket the caller never closed has fired
\* error and then an unclean close.
C20_Witness ==
    /\ ~autoReconnect
    /\ ev.op = "closed"
    /\ ~ev.clean
    /\ Len(sockets) = 1
    /\ sockets[1].readyState = CLOSED
    /\ callerClosed = {}
    /\ reconnectInterval = Null

\* C21 (as stated): with autoReconnect true and maxReconnectAttempts = 0,
\* once the interval is armed, and with every connection attempt that is
\* left alone opening, an open event is eventually delivered: the manager
\* comes to have no interval armed and a current socket that is open.
C21_ReconnectEventuallyOpens ==
    (reconnectInterval # Null)
        ~> (/\ reconnectInterval = Null
            /\ websocket # Null
            /\ sockets[websocket].readyState = OPEN)

====
